---- MODULE Spec2Model ----
(***************************************************************************)
(* antidote: Mutex, RwLock and Condvar wrappers over std::sync that never  *)
(* surface poisoning (src/src/lib.rs).                                     *)
(*                                                                         *)
(* One lock object is constructed (Mutex::new or RwLock::new) and shared   *)
(* by a fixed set of client threads.  The wrapped std primitive is the     *)
(* state (locked flag, reader count, poison flag, protected value); the    *)
(* wrapper guards (MutexGuard, RwLockReadGuard, RwLockWriteGuard) are      *)
(* counted per owning thread, separately from the primitive's own state.   *)
(***************************************************************************)
EXTENDS Integers, FiniteSets, Sequences, TLC

NumThreads == 3     \* client threads sharing the lock
MaxVal == 1         \* protected values are 0..MaxVal
MaxReaders == 2     \* read guards live at once (std's own limit is far larger)

Threads == 1..NumThreads
Vals == 0..MaxVal

VARIABLES
  kind,       \* "none" | "mutex" | "rwlock" | "consumed": which lock exists
  data,       \* the protected value T inside the std primitive
  poisoned,   \* the std primitive's poison flag
  mlocked,    \* sync::Mutex: locked
  wlocked,    \* sync::RwLock: write-locked
  nreaders,   \* sync::RwLock: number of read locks
  pc,         \* per thread: "run", blocked in a call, or "panicked"
  why,        \* per thread in wait/wait_timeout: "none" (asleep), "woken", "timeout"
  mg, rg, wg, \* per thread: live MutexGuard / RwLockReadGuard / RwLockWriteGuard
  local,      \* per thread of the counting program: its position and the value it loaded
  written,    \* history: the value last stored by new / deref_mut / get_mut
  notified,   \* history: notify_one or notify_all was ever called
  last        \* history: the last call recorded, with the state it was made in

vars == <<kind, data, poisoned, mlocked, wlocked, nreaders, pc, why,
          mg, rg, wg, local, written, notified, last>>

lockvars == <<mlocked, wlocked, nreaders>>
guardvars == <<mg, rg, wg>>

RECURSIVE SumTo(_, _)
SumTo(f, n) == IF n = 0 THEN 0 ELSE f[n] + SumTo(f, n - 1)
Total(f) == SumTo(f, NumThreads)

PendingWriter == \E u \in Threads : pc[u] = "write"

\* The record of a completed call: its outcome and the state it was made in.
Call(op, t, res, val, flag) ==
  [op |-> op, res |-> res, val |-> val, flag |-> flag,
   nm |-> Total(mg), nr |-> Total(rg), nw |-> Total(wg),
   pois |-> poisoned, pendw |-> PendingWriter,
   why |-> IF t \in Threads THEN why[t] ELSE "none",
   own |-> IF t \in Threads THEN mg[t] + rg[t] + wg[t] ELSE 0,
   twin |-> res]

\* The record of a call whose outcome passes through the wrapper's handling
\* of a std result: twin is the outcome of the same call on the same lock
\* when no holder was ever abandoned (poison flag clear).
WithTwin(c, tw) == [c EXCEPT !.twin = tw]

(***************************************************************************)
(* The results of the std primitive, and what the wrapper makes of them.   *)
(***************************************************************************)
\* std LockResult<X>: Ok(x), or Err(PoisonError(x)) when the flag is set.
LockResult(p, x) == [tag |-> IF p THEN "Poisoned" ELSE "Ok", inner |-> x]

\* std TryLockResult<X>: WouldBlock when the access cannot be granted now.
StdTryResult(busy, p, x) ==
  IF busy THEN [tag |-> "WouldBlock", inner |-> x] ELSE LockResult(p, x)

\* A bare .unwrap(): a poisoned result panics.
RecoverUnwrap(r) == [panic |-> r.tag = "Poisoned", inner |-> r.inner]

\* .unwrap_or_else(|e| e.into_inner()): both tags give the inner value.
Recover(r) ==
  CASE r.tag = "Ok" -> [panic |-> FALSE, inner |-> r.inner]
    [] r.tag = "Poisoned" -> [panic |-> FALSE, inner |-> r.inner]

\* A try_* match that passes poisoning on as a refusal.
TryMatchPoisonRefused(r) ==
  IF r.tag = "Ok" THEN [tag |-> "Ok", inner |-> r.inner]
  ELSE [tag |-> "Err", inner |-> r.inner]

\* A try_* match that grants a guard whatever the primitive answered.
TryMatchGrantsAll(r) == [tag |-> "Ok", inner |-> r.inner]

\* The match of try_lock / try_read / try_write.
TryMatch(r) ==
  CASE r.tag = "Ok" -> [tag |-> "Ok", inner |-> r.inner]
    [] r.tag = "Poisoned" -> [tag |-> "Ok", inner |-> r.inner]
    [] r.tag = "WouldBlock" -> [tag |-> "Err", inner |-> r.inner]

\* A mutex that hands out its lock whether or not it is held.
MutexAvailableAlways == TRUE

\* sync::Mutex grants the lock only when it is not locked.
MutexAvailable == ~mlocked

\* A read lock granted also beside a writer.
ReadAvailableAlways == TRUE

\* sync::RwLock grants a read lock when no writer holds it.
ReadAvailable == ~wlocked

\* A write lock granted beside readers.
WriteAvailableNoWriter == ~wlocked

\* sync::RwLock grants the write lock when nobody holds it.
WriteAvailable == ~wlocked /\ nreaders = 0

\* A guard whose drop leaves the primitive locked.
UnlockedByDropNever == FALSE

\* Dropping the std guard unlocks the primitive.
UnlockedByDrop == TRUE

\* The same call where every earlier holder released normally: the state is
\* the same but for the poison flag, which is clear.
TwinRecover == IF Recover(LockResult(FALSE, "guard")).panic THEN "Panic" ELSE "Ok"
TwinTry(busy) == TryMatch(StdTryResult(busy, FALSE, "guard")).tag

TypeOK ==
  /\ kind \in {"none", "mutex", "rwlock", "consumed"}
  /\ data \in Vals /\ written \in Vals
  /\ poisoned \in BOOLEAN /\ mlocked \in BOOLEAN /\ wlocked \in BOOLEAN
  /\ nreaders \in Nat /\ notified \in BOOLEAN
  /\ pc \in [Threads -> {"run", "lock", "read", "write", "wait",
                         "wait_timeout", "panicked"}]
  /\ why \in [Threads -> {"none", "woken", "timeout"}]
  /\ mg \in [Threads -> Nat] /\ rg \in [Threads -> Nat] /\ wg \in [Threads -> Nat]

Init ==
  /\ kind = "none"
  /\ data = 0 /\ written = 0
  /\ poisoned = FALSE /\ mlocked = FALSE /\ wlocked = FALSE /\ nreaders = 0
  /\ pc = [t \in Threads |-> "run"]
  /\ why = [t \in Threads |-> "none"]
  /\ mg = [t \in Threads |-> 0]
  /\ rg = [t \in Threads |-> 0]
  /\ wg = [t \in Threads |-> 0]
  /\ local = [t \in Threads |-> [at |-> "client", val |-> 0]]
  /\ notified = FALSE
  /\ last = Call("none", 0, "none", 0, FALSE)

\* A call that panics: the thread unwinds, dropping the guards it owns.
Panicked(t, op) ==
  /\ pc' = [pc EXCEPT ![t] = "panicked"]
  /\ last' = WithTwin(Call(op, t, "Panic", 0, FALSE), TwinRecover)

(***************************************************************************)
(* Mutex                                                                   *)
(***************************************************************************)
Mutex_new(x) ==
  /\ kind = "none"
  /\ kind' = "mutex" /\ data' = x /\ written' = x
  /\ last' = Call("new", 0, "Ok", x, FALSE)
  /\ UNCHANGED <<poisoned, lockvars, pc, why, guardvars, notified>>

\* No guard is live and no thread is inside a call: the caller can own the
\* lock (self) or borrow it exclusively (&mut self).
Exclusive ==
  /\ Total(mg) + Total(rg) + Total(wg) = 0
  /\ \A u \in Threads : pc[u] \in {"run", "panicked"}

Mutex_into_inner(t) ==
  /\ kind = "mutex" /\ pc[t] = "run" /\ Exclusive
  /\ LET r == Recover(LockResult(poisoned, data)) IN
       IF r.panic THEN Panicked(t, "into_inner") /\ kind' = "consumed"
       ELSE /\ kind' = "consumed"
            /\ last' = WithTwin(Call("into_inner", t, "Ok", r.inner, FALSE), TwinRecover)
            /\ pc' = pc
  /\ UNCHANGED <<data, poisoned, lockvars, why, guardvars, written, notified>>

\* The thread enters lock() and blocks until the mutex is available.
Mutex_lock_call(t) ==
  /\ kind = "mutex" /\ pc[t] = "run"
  /\ pc' = [pc EXCEPT ![t] = "lock"]
  /\ UNCHANGED <<kind, data, poisoned, lockvars, why, guardvars,
                 written, notified, last>>

\* lock() returns: the primitive is acquired and its result recovered.  A
\* result that panics drops the std guard it carries while panicking.
Mutex_lock(t) ==
  /\ kind = "mutex" /\ pc[t] = "lock" /\ MutexAvailable
  /\ LET r == Recover(LockResult(poisoned, "guard")) IN
       IF r.panic
       THEN /\ Panicked(t, "lock")
            /\ UNCHANGED <<mlocked, mg, poisoned>>
       ELSE /\ mlocked' = TRUE
            /\ mg' = [mg EXCEPT ![t] = @ + 1]
            /\ pc' = [pc EXCEPT ![t] = "run"]
            /\ last' = WithTwin(Call("lock", t, "Ok", data, FALSE), TwinRecover)
            /\ UNCHANGED poisoned
  /\ UNCHANGED <<kind, data, wlocked, nreaders, why, rg, wg, written, notified>>

\* lock() called by the thread that holds the guard: std leaves the
\* behaviour unspecified but for one thing, the call does not return.  It
\* blocks for ever (no step) or panics, and the thread then unwinds.
Mutex_lock_relock(t) ==
  /\ kind = "mutex" /\ pc[t] = "lock" /\ mg[t] > 0
  /\ pc' = [pc EXCEPT ![t] = "panicked"]
  /\ UNCHANGED <<kind, data, poisoned, lockvars, why, guardvars,
                 written, notified, last>>

Mutex_try_lock(t) ==
  /\ kind = "mutex" /\ pc[t] = "run"
  /\ LET r == TryMatch(StdTryResult(~MutexAvailable, poisoned, "guard")) IN
       IF r.tag = "Ok"
       THEN /\ mlocked' = TRUE
            /\ mg' = [mg EXCEPT ![t] = @ + 1]
            /\ last' = WithTwin(Call("try_lock", t, "Ok", data, FALSE),
                                TwinTry(~MutexAvailable))
       ELSE /\ last' = WithTwin(Call("try_lock", t, "Err", 0, FALSE),
                                TwinTry(~MutexAvailable))
            /\ UNCHANGED <<mlocked, mg>>
  /\ UNCHANGED <<kind, data, poisoned, wlocked, nreaders, pc, why, rg, wg, written, notified>>

\* get_mut(&mut self), and a store of v through the reference it returns.
Mutex_get_mut(t, v) ==
  /\ kind = "mutex" /\ pc[t] = "run" /\ Exclusive
  /\ LET r == Recover(LockResult(poisoned, data)) IN
       IF r.panic
       THEN Panicked(t, "get_mut") /\ UNCHANGED <<data, written>>
       ELSE /\ data' = v /\ written' = v
            /\ last' = WithTwin(Call("get_mut", t, "Ok", r.inner, FALSE), TwinRecover)
            /\ pc' = pc
  /\ UNCHANGED <<kind, poisoned, lockvars, why, guardvars, notified>>

\* A deref that moves the value out of the lock (mem::take) instead of
\* borrowing it.
MutexGuard_deref_takes(t) ==
  /\ kind = "mutex" /\ pc[t] = "run" /\ mg[t] > 0
  /\ data' = 0
  /\ last' = Call("deref", t, "Ok", data, FALSE)
  /\ UNCHANGED <<kind, poisoned, lockvars, pc, why, guardvars,
                 written, notified>>

MutexGuard_deref(t) ==
  /\ kind = "mutex" /\ pc[t] = "run" /\ mg[t] > 0
  /\ last' = Call("deref", t, "Ok", data, FALSE)
  /\ UNCHANGED <<kind, data, poisoned, lockvars, pc, why, guardvars,
                 written, notified>>

MutexGuard_deref_mut(t, v) ==
  /\ kind = "mutex" /\ pc[t] = "run" /\ mg[t] > 0
  /\ data' = v /\ written' = v
  /\ last' = Call("deref_mut", t, "Ok", v, FALSE)
  /\ UNCHANGED <<kind, poisoned, lockvars, pc, why, guardvars, notified>>

\* The guard goes out of scope, also while its owner unwinds from a panic:
\* the std guard unlocks, and poisons the mutex when dropped during a panic.
MutexGuard_drop(t) ==
  /\ kind = "mutex" /\ pc[t] \in {"run", "panicked"} /\ mg[t] > 0
  /\ mg' = [mg EXCEPT ![t] = @ - 1]
  /\ mlocked' = IF UnlockedByDrop THEN FALSE ELSE mlocked
  /\ poisoned' = (poisoned \/ pc[t] = "panicked")
  /\ last' = Call("drop", t, "Ok", 0, FALSE)
  /\ UNCHANGED <<kind, data, wlocked, nreaders, pc, why, rg, wg,
                 written, notified>>

\* The holder of a guard panics in its own code and starts to unwind.
Panic(t) ==
  /\ kind \in {"mutex", "rwlock"} /\ pc[t] = "run"
  /\ mg[t] + rg[t] + wg[t] > 0
  /\ pc' = [pc EXCEPT ![t] = "panicked"]
  /\ UNCHANGED <<kind, data, poisoned, lockvars, why, guardvars,
                 written, notified, last>>

(***************************************************************************)
(* Condvar                                                                 *)
(***************************************************************************)
\* Threads asleep on the condition variable (not yet woken).
Waiters == {w \in Threads : pc[w] \in {"wait", "wait_timeout"} /\ why[w] = "none"}

\* A wait that leaves the mutex locked while its caller sleeps.
WaitKeepsLocked(locked) == locked

\* std Condvar::wait unlocks the mutex of the guard it is given.
WaitUnlocks(locked) == FALSE

\* wait(guard) begins: the guard is consumed, and the mutex is unlocked
\* atomically with the thread going to sleep.
Condvar_wait_call(t) ==
  /\ kind = "mutex" /\ pc[t] = "run" /\ mg[t] > 0
  /\ mg' = [mg EXCEPT ![t] = @ - 1]
  /\ mlocked' = WaitUnlocks(mlocked)
  /\ pc' = [pc EXCEPT ![t] = "wait"]
  /\ last' = Call("wait_call", t, "Blocked", 0, FALSE)
  /\ UNCHANGED <<kind, data, poisoned, wlocked, nreaders, why, rg, wg,
                 written, notified>>

Condvar_wait_timeout_call(t) ==
  /\ kind = "mutex" /\ pc[t] = "run" /\ mg[t] > 0
  /\ mg' = [mg EXCEPT ![t] = @ - 1]
  /\ mlocked' = WaitUnlocks(mlocked)
  /\ pc' = [pc EXCEPT ![t] = "wait_timeout"]
  /\ last' = Call("wait_timeout_call", t, "Blocked", 0, FALSE)
  /\ UNCHANGED <<kind, data, poisoned, wlocked, nreaders, why, rg, wg,
                 written, notified>>

\* A sleeping waiter wakes without any notification (std allows it).
SpuriousWake(w) ==
  /\ w \in Waiters
  /\ why' = [why EXCEPT ![w] = "woken"]
  /\ UNCHANGED <<kind, data, poisoned, lockvars, pc, guardvars,
                 written, notified, last>>

\* The duration of a wait_timeout elapses before any wake-up.
Timeout(w) ==
  /\ w \in Waiters /\ pc[w] = "wait_timeout"
  /\ why' = [why EXCEPT ![w] = "timeout"]
  /\ UNCHANGED <<kind, data, poisoned, lockvars, pc, guardvars,
                 written, notified, last>>

\* notify_one with no waiter keeps the sleepers as they are.
NotifyOneDropped(W, w) == why

\* notify_one that leaves a permit behind when nobody sleeps: the thread w
\* finds it on its next wait.
NotifyOneStored(W, w) == [why EXCEPT ![w] = "woken"]

\* notify_one wakes the sleeper w the primitive picked; with none asleep
\* nothing changes and nothing is stored.
NotifyOne(W, w) == IF W = {} THEN why ELSE [why EXCEPT ![w] = "woken"]

Condvar_notify_one(t) ==
  /\ kind = "mutex" /\ pc[t] = "run"
  /\ \E w \in Threads :
       /\ Waiters /= {} => w \in Waiters
       /\ Waiters = {} => w = t
       /\ why' = NotifyOne(Waiters, w)
  /\ notified' = TRUE
  /\ last' = Call("notify_one", t, "Ok", Cardinality(Waiters), FALSE)
  /\ UNCHANGED <<kind, data, poisoned, lockvars, pc, guardvars, written>>

\* notify_all that wakes a single sleeper, as notify_one does.
NotifyAllWakesOne(W) ==
  IF W = {} THEN why ELSE [why EXCEPT ![CHOOSE w \in W : TRUE] = "woken"]

\* notify_all wakes every sleeper; with none asleep nothing changes.
NotifyAll(W) == [w \in Threads |-> IF w \in W THEN "woken" ELSE why[w]]

Condvar_notify_all(t) ==
  /\ kind = "mutex" /\ pc[t] = "run"
  /\ why' = NotifyAll(Waiters)
  /\ notified' = TRUE
  /\ last' = Call("notify_all", t, "Ok", Cardinality(Waiters), FALSE)
  /\ UNCHANGED <<kind, data, poisoned, lockvars, pc, guardvars, written>>

\* wait returns: the woken thread reacquires the mutex, and the result of
\* the std wait is recovered.
Condvar_wait(t) ==
  /\ kind = "mutex" /\ pc[t] = "wait" /\ why[t] /= "none" /\ MutexAvailable
  /\ LET r == Recover(LockResult(poisoned, "guard")) IN
       IF r.panic
       THEN Panicked(t, "wait") /\ UNCHANGED <<mlocked, mg>>
       ELSE /\ mlocked' = TRUE
            /\ mg' = [mg EXCEPT ![t] = @ + 1]
            /\ pc' = [pc EXCEPT ![t] = "run"]
            /\ last' = WithTwin(Call("wait", t, "Ok", data, FALSE), TwinRecover)
  /\ why' = [why EXCEPT ![t] = "none"]
  /\ UNCHANGED <<kind, data, poisoned, wlocked, nreaders, rg, wg,
                 written, notified>>

\* A WaitTimeoutResult that always reports a wake-up.
TimedOutNever(reason) == FALSE

\* WaitTimeoutResult::timed_out(): the duration elapsed before a wake-up.
TimedOut(reason) == reason = "timeout"

\* wait_timeout returns (guard, result).
Condvar_wait_timeout(t) ==
  /\ kind = "mutex" /\ pc[t] = "wait_timeout" /\ why[t] /= "none" /\ MutexAvailable
  /\ LET r == Recover(LockResult(poisoned, "guard")) IN
       IF r.panic
       THEN Panicked(t, "wait_timeout") /\ UNCHANGED <<mlocked, mg>>
       ELSE /\ mlocked' = TRUE
            /\ mg' = [mg EXCEPT ![t] = @ + 1]
            /\ pc' = [pc EXCEPT ![t] = "run"]
            /\ last' = WithTwin(Call("wait_timeout", t, "Ok", data, TimedOut(why[t])), TwinRecover)
  /\ why' = [why EXCEPT ![t] = "none"]
  /\ UNCHANGED <<kind, data, poisoned, wlocked, nreaders, rg, wg,
                 written, notified>>

(***************************************************************************)
(* RwLock                                                                  *)
(***************************************************************************)
RwLock_new(x) ==
  /\ kind = "none"
  /\ kind' = "rwlock" /\ data' = x /\ written' = x
  /\ last' = Call("new", 0, "Ok", x, FALSE)
  /\ UNCHANGED <<poisoned, lockvars, pc, why, guardvars, notified>>

RwLock_into_inner(t) ==
  /\ kind = "rwlock" /\ pc[t] = "run" /\ Exclusive
  /\ LET r == Recover(LockResult(poisoned, data)) IN
       IF r.panic THEN Panicked(t, "into_inner") /\ kind' = "consumed"
       ELSE /\ kind' = "consumed"
            /\ last' = WithTwin(Call("into_inner", t, "Ok", r.inner, FALSE), TwinRecover)
            /\ pc' = pc
  /\ UNCHANGED <<data, poisoned, lockvars, why, guardvars, written, notified>>

RwLock_get_mut(t, v) ==
  /\ kind = "rwlock" /\ pc[t] = "run" /\ Exclusive
  /\ LET r == Recover(LockResult(poisoned, data)) IN
       IF r.panic
       THEN Panicked(t, "get_mut") /\ UNCHANGED <<data, written>>
       ELSE /\ data' = v /\ written' = v
            /\ last' = WithTwin(Call("get_mut", t, "Ok", r.inner, FALSE), TwinRecover)
            /\ pc' = pc
  /\ UNCHANGED <<kind, poisoned, lockvars, why, guardvars, notified>>

RwLock_read_call(t) ==
  /\ kind = "rwlock" /\ pc[t] = "run" /\ nreaders < MaxReaders
  /\ pc' = [pc EXCEPT ![t] = "read"]
  /\ UNCHANGED <<kind, data, poisoned, lockvars, why, guardvars,
                 written, notified, last>>

RwLock_read(t) ==
  /\ kind = "rwlock" /\ pc[t] = "read" /\ ReadAvailable
  /\ LET r == Recover(LockResult(poisoned, "guard")) IN
       IF r.panic
       THEN Panicked(t, "read") /\ UNCHANGED <<nreaders, rg>>
       ELSE /\ nreaders' = nreaders + 1
            /\ rg' = [rg EXCEPT ![t] = @ + 1]
            /\ pc' = [pc EXCEPT ![t] = "run"]
            /\ last' = WithTwin(Call("read", t, "Ok", data, FALSE), TwinRecover)
  /\ UNCHANGED <<kind, data, poisoned, mlocked, wlocked, why, mg, wg,
                 written, notified>>

\* try_read: the primitive refuses beside a writer; beside readers with a
\* write() call pending its policy is unspecified, and it may refuse or grant.
RwLock_try_read(t, refuse) ==
  /\ kind = "rwlock" /\ pc[t] = "run" /\ nreaders < MaxReaders
  /\ refuse => (nreaders > 0 /\ PendingWriter)
  /\ LET r == TryMatch(StdTryResult(~ReadAvailable \/ refuse, poisoned, "guard")) IN
       IF r.tag = "Ok"
       THEN /\ nreaders' = nreaders + 1
            /\ rg' = [rg EXCEPT ![t] = @ + 1]
            /\ last' = WithTwin(Call("try_read", t, "Ok", data, FALSE),
                                TwinTry(~ReadAvailable \/ refuse))
       ELSE /\ last' = WithTwin(Call("try_read", t, "Err", 0, FALSE),
                                TwinTry(~ReadAvailable \/ refuse))
            /\ UNCHANGED <<nreaders, rg>>
  /\ UNCHANGED <<kind, data, poisoned, mlocked, wlocked, pc, why, mg, wg, written, notified>>

RwLock_write_call(t) ==
  /\ kind = "rwlock" /\ pc[t] = "run"
  /\ pc' = [pc EXCEPT ![t] = "write"]
  /\ UNCHANGED <<kind, data, poisoned, lockvars, why, guardvars,
                 written, notified, last>>

RwLock_write(t) ==
  /\ kind = "rwlock" /\ pc[t] = "write" /\ WriteAvailable
  /\ LET r == Recover(LockResult(poisoned, "guard")) IN
       IF r.panic
       THEN Panicked(t, "write") /\ UNCHANGED <<wlocked, wg>>
       ELSE /\ wlocked' = TRUE
            /\ wg' = [wg EXCEPT ![t] = @ + 1]
            /\ pc' = [pc EXCEPT ![t] = "run"]
            /\ last' = WithTwin(Call("write", t, "Ok", data, FALSE), TwinRecover)
  /\ UNCHANGED <<kind, data, poisoned, mlocked, nreaders, why, mg, rg,
                 written, notified>>

RwLock_try_write(t) ==
  /\ kind = "rwlock" /\ pc[t] = "run"
  /\ LET r == TryMatch(StdTryResult(~WriteAvailable, poisoned, "guard")) IN
       IF r.tag = "Ok"
       THEN /\ wlocked' = TRUE
            /\ wg' = [wg EXCEPT ![t] = @ + 1]
            /\ last' = WithTwin(Call("try_write", t, "Ok", data, FALSE),
                                TwinTry(~WriteAvailable))
       ELSE /\ last' = WithTwin(Call("try_write", t, "Err", 0, FALSE),
                                TwinTry(~WriteAvailable))
            /\ UNCHANGED <<wlocked, wg>>
  /\ UNCHANGED <<kind, data, poisoned, mlocked, nreaders, pc, why, mg, rg, written, notified>>

RwLockReadGuard_deref(t) ==
  /\ kind = "rwlock" /\ pc[t] = "run" /\ rg[t] > 0
  /\ last' = Call("deref", t, "Ok", data, FALSE)
  /\ UNCHANGED <<kind, data, poisoned, lockvars, pc, why, guardvars,
                 written, notified>>

\* A read guard dropped, also during unwinding: a read lock never poisons.
RwLockReadGuard_drop(t) ==
  /\ kind = "rwlock" /\ pc[t] \in {"run", "panicked"} /\ rg[t] > 0
  /\ rg' = [rg EXCEPT ![t] = @ - 1]
  /\ nreaders' = IF UnlockedByDrop THEN nreaders - 1 ELSE nreaders
  /\ last' = Call("drop", t, "Ok", 0, FALSE)
  /\ UNCHANGED <<kind, data, poisoned, mlocked, wlocked, pc, why, mg, wg, written, notified>>

RwLockWriteGuard_deref(t) ==
  /\ kind = "rwlock" /\ pc[t] = "run" /\ wg[t] > 0
  /\ last' = Call("deref", t, "Ok", data, FALSE)
  /\ UNCHANGED <<kind, data, poisoned, lockvars, pc, why, guardvars,
                 written, notified>>

RwLockWriteGuard_deref_mut(t, v) ==
  /\ kind = "rwlock" /\ pc[t] = "run" /\ wg[t] > 0
  /\ data' = v /\ written' = v
  /\ last' = Call("deref_mut", t, "Ok", v, FALSE)
  /\ UNCHANGED <<kind, poisoned, lockvars, pc, why, guardvars, notified>>

\* A write guard dropped; dropped during unwinding it poisons the lock.
RwLockWriteGuard_drop(t) ==
  /\ kind = "rwlock" /\ pc[t] \in {"run", "panicked"} /\ wg[t] > 0
  /\ wg' = [wg EXCEPT ![t] = @ - 1]
  /\ wlocked' = IF UnlockedByDrop THEN FALSE ELSE wlocked
  /\ poisoned' = (poisoned \/ pc[t] = "panicked")
  /\ last' = Call("drop", t, "Ok", 0, FALSE)
  /\ UNCHANGED <<kind, data, mlocked, nreaders, pc, why, mg, rg,
                 written, notified>>

(***************************************************************************)
(* The program: any thread may make any call its state allows.             *)
(***************************************************************************)
\* A call by a client thread, which keeps no program state of its own.
Client(A) == A /\ UNCHANGED local

Next ==
  \/ \E x \in Vals : Client(Mutex_new(x))
  \/ \E x \in Vals : Client(RwLock_new(x))
  \/ \E t \in Threads : Client(Mutex_into_inner(t))
  \/ \E t \in Threads : Client(Mutex_lock_call(t))
  \/ \E t \in Threads : Client(Mutex_lock(t))
  \/ \E t \in Threads : Client(Mutex_lock_relock(t))
  \/ \E t \in Threads : Client(Mutex_try_lock(t))
  \/ \E t \in Threads, v \in Vals : Client(Mutex_get_mut(t, v))
  \/ \E t \in Threads : Client(MutexGuard_deref(t))
  \/ \E t \in Threads, v \in Vals : Client(MutexGuard_deref_mut(t, v))
  \/ \E t \in Threads : Client(MutexGuard_drop(t))
  \/ \E t \in Threads : Client(Panic(t))
  \/ \E t \in Threads : Client(Condvar_wait_call(t))
  \/ \E t \in Threads : Client(Condvar_wait_timeout_call(t))
  \/ \E t \in Threads : Client(SpuriousWake(t))
  \/ \E t \in Threads : Client(Timeout(t))
  \/ \E t \in Threads : Client(Condvar_notify_one(t))
  \/ \E t \in Threads : Client(Condvar_notify_all(t))
  \/ \E t \in Threads : Client(Condvar_wait(t))
  \/ \E t \in Threads : Client(Condvar_wait_timeout(t))
  \/ \E t \in Threads : Client(RwLock_into_inner(t))
  \/ \E t \in Threads, v \in Vals : Client(RwLock_get_mut(t, v))
  \/ \E t \in Threads : Client(RwLock_read_call(t))
  \/ \E t \in Threads : Client(RwLock_read(t))
  \/ \E t \in Threads, refuse \in BOOLEAN : Client(RwLock_try_read(t, refuse))
  \/ \E t \in Threads : Client(RwLock_write_call(t))
  \/ \E t \in Threads : Client(RwLock_write(t))
  \/ \E t \in Threads : Client(RwLock_try_write(t))
  \/ \E t \in Threads : Client(RwLockReadGuard_deref(t))
  \/ \E t \in Threads : Client(RwLockReadGuard_drop(t))
  \/ \E t \in Threads : Client(RwLockWriteGuard_deref(t))
  \/ \E t \in Threads, v \in Vals : Client(RwLockWriteGuard_deref_mut(t, v))
  \/ \E t \in Threads : Client(RwLockWriteGuard_drop(t))
Spec == Init /\ [][Next]_vars

(***************************************************************************)
(* Scheduling.  A thread woken from wait is runnable: whenever the mutex   *)
(* keeps becoming available it eventually gets it (strong fairness of the  *)
(* reacquisition).  Nothing obliges a client to make any other call.       *)
(***************************************************************************)
FairSpec ==
  /\ Spec
  /\ \A t \in Threads : SF_vars(Client(Condvar_wait(t)))

(***************************************************************************)
(* The counting program: Mutex::new(0), then every thread locks once,      *)
(* loads the integer, stores it plus one and drops its guard; the main     *)
(* thread joins them all and calls into_inner.                             *)
(***************************************************************************)
At(t, a) == local[t].at = a
Goto(t, a) == local' = [local EXCEPT ![t].at = a]

InitCounter ==
  /\ kind = "mutex"
  /\ data = 0 /\ written = 0
  /\ poisoned = FALSE /\ mlocked = FALSE /\ wlocked = FALSE /\ nreaders = 0
  /\ pc = [t \in Threads |-> "run"]
  /\ why = [t \in Threads |-> "none"]
  /\ mg = [t \in Threads |-> 0]
  /\ rg = [t \in Threads |-> 0]
  /\ wg = [t \in Threads |-> 0]
  /\ local = [t \in Threads |-> [at |-> "spawned", val |-> 0]]
  /\ notified = FALSE
  /\ last = Call("new", 0, "Ok", 0, FALSE)

Inc_lock_call(t) == At(t, "spawned") /\ Mutex_lock_call(t) /\ Goto(t, "locking")

Inc_lock(t) == At(t, "locking") /\ Mutex_lock(t) /\ Goto(t, "locked")

Inc_load(t) ==
  /\ At(t, "locked") /\ MutexGuard_deref(t)
  /\ local' = [local EXCEPT ![t] = [at |-> "loaded", val |-> data]]

Inc_store(t) ==
  At(t, "loaded") /\ MutexGuard_deref_mut(t, local[t].val + 1) /\ Goto(t, "stored")

Inc_drop(t) == At(t, "stored") /\ MutexGuard_drop(t) /\ Goto(t, "finished")

Joined == \A t \in Threads : At(t, "finished")

Main_into_inner ==
  /\ Joined
  /\ \E t \in Threads : Mutex_into_inner(t)
  /\ UNCHANGED local

NextCounter ==
  \/ \E t \in Threads : Inc_lock_call(t)
  \/ \E t \in Threads : Inc_lock(t)
  \/ \E t \in Threads : Inc_load(t)
  \/ \E t \in Threads : Inc_store(t)
  \/ \E t \in Threads : Inc_drop(t)
  \/ Main_into_inner

SpecCounter == InitCounter /\ [][NextCounter]_vars

(***************************************************************************)
(* Properties                                                              *)
(***************************************************************************)
\* Every thread that has been woken or has timed out in wait or wait_timeout
\* is runnable: it takes the mutex at one of the moments it is free.
FairWaitSpec ==
  /\ FairSpec
  /\ \A t \in Threads : SF_vars(Client(Condvar_wait_timeout(t)))

\* A panicking thread unwinds: the guards in its frames are dropped.
Unwind(t) ==
  /\ pc[t] = "panicked"
  /\ MutexGuard_drop(t) \/ RwLockReadGuard_drop(t) \/ RwLockWriteGuard_drop(t)

\* A blocked lock(), read() or write() call returns.
Acquire(t) == Mutex_lock(t) \/ RwLock_read(t) \/ RwLock_write(t)

\* Unwinding runs to its end, and a thread blocked in lock, read or write
\* takes the lock at one of the moments it can be granted.
FairUnwindSpec ==
  /\ Spec
  /\ WF_vars(\E t \in Threads : Client(Unwind(t)))
  /\ \A t \in Threads : SF_vars(Client(Acquire(t)))

Abandoned == \E t \in Threads : pc[t] = "panicked"

TryOps == {"try_lock", "try_read", "try_write"}

\* C1: at most one MutexGuard of the Mutex is live in every state, whatever
\* the interleaving of lock, try_lock, wait, drop and panics of holders.
C1_AtMostOneMutexGuard ==
  kind = "mutex" => Total(mg) <= 1

\* C1 witness: a guard is live after an earlier holder panicked, while
\* another thread is blocked in lock().
C1_Witness ==
  /\ kind = "mutex" /\ Total(mg) = 1 /\ poisoned
  /\ \E t \in Threads : pc[t] = "panicked"
  /\ \E t \in Threads : pc[t] = "lock" /\ mg[t] = 0

\* C2: on the RwLock, live write guards <= 1, and write guards and read
\* guards are never live together.
C2_WriterExcludesAll ==
  kind = "rwlock" =>
    /\ Total(wg) <= 1
    /\ (Total(wg) = 0 \/ Total(rg) = 0)

\* C2 witness: two read guards are live while a write() call is pending.
C2_Witness ==
  kind = "rwlock" /\ Total(rg) = 2 /\ Total(wg) = 0 /\ PendingWriter

\* C3: once a holder has panicked with a guard, every completed lock, read
\* or write call returns a guard (never a panic or an error) over the value
\* last stored, and a hold whose guard is gone does not stay locked.
C3_UsableAfterAbandonment ==
  Abandoned =>
    /\ last.op \in {"lock", "read", "write"} =>
         (last.res = "Ok" /\ last.val = written /\ data = written)
    /\ Total(mg) = 0 => ~mlocked
    /\ Total(wg) = 0 => ~wlocked
    /\ nreaders = Total(rg)

\* C3 witness: a blocking acquisition has returned a guard on a poisoned lock.
C3_Witness ==
  /\ Abandoned /\ last.op \in {"lock", "write"} /\ last.pois
  /\ last.res = "Ok" /\ Total(mg) + Total(wg) = 1

\* The lock was held in a mode that conflicts with the try_* call recorded.
Conflicting(c) ==
  CASE c.op = "try_lock" -> c.nm > 0
    [] c.op = "try_read" -> c.nw > 0
    [] c.op = "try_write" -> c.nw > 0 \/ c.nr > 0
    [] OTHER -> FALSE

\* C4 as stated: a try_* call is refused only when the lock is held in a
\* conflicting mode, and a free but poisoned lock is granted.
C4_RefusedOnlyWhenConflicting ==
  last.op \in TryOps =>
    /\ last.res = "Err" => Conflicting(last)
    /\ (last.nm + last.nr + last.nw = 0 /\ last.pois) => last.res = "Ok"

\* C4 amended: a try_* call never panics and is refused only when the lock
\* is held in a conflicting mode or, for try_read, while a write() call is
\* pending; a free but poisoned lock is granted.
C4_RefusedOnlyWhenBusy ==
  last.op \in TryOps =>
    /\ last.res \in {"Ok", "Err"}
    /\ last.res = "Err" =>
         \/ Conflicting(last)
         \/ last.op = "try_read" /\ last.pendw
    /\ (last.nm + last.nr + last.nw = 0 /\ last.pois) => last.res = "Ok"

\* C4 witness: a try_* call on a free, poisoned lock returned a guard.
C4_Witness ==
  /\ last.op \in TryOps /\ last.pois /\ last.res = "Ok"
  /\ last.nm + last.nr + last.nw = 0
  /\ Total(mg) + Total(rg) + Total(wg) = 1

\* C5: try_lock is refused exactly when a MutexGuard is live at the call: it
\* is refused while one is live and granted once none is.
C5_TryLockRefusedIffHeld ==
  last.op = "try_lock" => (last.res = "Err" <=> last.nm > 0)

\* C5 witness: try_lock was refused while another thread's guard was live.
C5_Witness ==
  last.op = "try_lock" /\ last.res = "Err" /\ last.nm = 1 /\ Total(mg) = 1

\* C6: beside a live write guard try_read and try_write are refused; beside
\* live read guards, with no writer active or pending, try_write is refused
\* and try_read is granted; with no guard live both are granted.
C6_TryReadTryWrite ==
  last.op \in {"try_read", "try_write"} =>
    /\ last.nw > 0 => last.res = "Err"
    /\ (last.nr > 0 /\ last.nw = 0 /\ ~last.pendw) =>
         (last.res = IF last.op = "try_write" THEN "Err" ELSE "Ok")
    /\ (last.nr = 0 /\ last.nw = 0) => last.res = "Ok"

\* C6 witness: try_read returned a further read guard beside a live one.
C6_Witness ==
  /\ last.op = "try_read" /\ last.res = "Ok" /\ last.nr = 1 /\ ~last.pendw
  /\ Total(rg) = 2

\* C8 as stated: with no notify_one or notify_all ever called, wait_timeout
\* reports that it timed out.
C8_TimedOutWithoutNotify ==
  (last.op = "wait_timeout" /\ ~notified) => last.flag

\* C8 amended: wait_timeout returns a guard and reports timed-out exactly
\* when its wait ended because the duration elapsed; with no notification
\* the flag is false only after a spurious wake-up.
C8_TimedOutIffElapsed ==
  last.op = "wait_timeout" =>
    /\ last.res = "Ok"
    /\ last.flag <=> last.why = "timeout"
    /\ (~notified /\ ~last.flag) => last.why = "woken"

\* C8 witness: a wait_timeout without any notification reported timed-out.
C8_Witness ==
  last.op = "wait_timeout" /\ ~notified /\ last.flag /\ last.res = "Ok"

\* C9: into_inner returns the value last stored (by new, or through a guard
\* or get_mut since), also when the lock is poisoned; it never fails.
C9_IntoInnerRoundTrip ==
  last.op = "into_inner" => (last.res = "Ok" /\ last.val = written)

\* C9 witness: into_inner of a poisoned lock has returned.
C9_Witness ==
  kind = "consumed" /\ last.op = "into_inner" /\ last.pois /\ last.res = "Ok"

\* C10: in the counting program no update is lost: into_inner, called after
\* all NumThreads threads have finished, returns exactly NumThreads.
C10_NoLostUpdate ==
  last.op = "into_inner" => (last.res = "Ok" /\ last.val = NumThreads)

\* C10 witness: all threads have finished and into_inner has returned.
C10_Witness ==
  Joined /\ kind = "consumed" /\ last.op = "into_inner" /\ last.val = NumThreads

\* Every holder of the Mutex eventually releases it, again and again.
HoldersRelease == []<>(Total(mg) = 0)

RecoveringOps ==
  {"lock", "try_lock", "read", "try_read", "write", "try_write",
   "wait", "wait_timeout", "get_mut", "into_inner"}

\* C11: abandonment is unobservable: every completed lock, try_lock, read,
\* try_read, write, try_write, wait, wait_timeout, get_mut and into_inner
\* has the outcome (Ok, Err or panic) the same call has in the twin run in
\* which every earlier holder released normally, and yields the protected
\* value as last stored, poisoned or not.
C11_AbandonmentUnobservable ==
  /\ [](last.op \in RecoveringOps =>
          /\ last.res = last.twin
          /\ (last.res = "Ok" /\ last.op /= "get_mut") => last.val = written)
  /\ [][(last' /= last /\ last'.op = "get_mut") =>
          (last'.res = last'.twin /\ last'.val = data)]_vars

\* C11 witness: a try_* call on a poisoned lock, made after a holder
\* panicked, has been granted as on a lock nobody abandoned.
C11_Witness ==
  /\ Abandoned /\ last.pois /\ last.op \in TryOps
  /\ last.res = "Ok" /\ last.twin = "Ok"

\* C12: wait consumes the caller's guard and unlocks the Mutex in the step
\* in which the caller starts to block, so the Mutex is locked exactly when
\* a guard is live and others can acquire it while the caller sleeps; wait
\* returns only by reacquiring the free Mutex, and at most one guard is live
\* in every state before, during and after the wait.
C12_WaitSwapsHoldAtomically ==
  kind = "mutex" =>
    /\ Total(mg) <= 1
    /\ mlocked <=> (Total(mg) = 1)
    /\ \A t \in Threads : pc[t] = "wait" => mg[t] = 0
    /\ last.op = "wait_call" => (last.own = 1 /\ ~mlocked /\ Total(mg) = 0)
    /\ (last.op = "wait" /\ last.res = "Ok") =>
         (last.nm = 0 /\ mlocked /\ Total(mg) = 1)

\* C12 witness: while one thread is blocked in wait, another thread has
\* acquired the Mutex and holds its guard.
C12_Witness ==
  /\ kind = "mutex" /\ last.op \in {"lock", "try_lock"} /\ last.res = "Ok"
  /\ \E t, u \in Threads :
       t /= u /\ pc[t] = "wait" /\ mg[t] = 0 /\ pc[u] = "run" /\ mg[u] = 1

NotifyOps == {"notify_one", "notify_all"}

\* C13: notify_one and notify_all can be called by any running thread and
\* return normally; called while no thread sleeps on the Condvar they change
\* nothing (lock state, guards, protected value, poison flag, every thread's
\* position and wake-up state), and a thread that starts to wait is asleep
\* whatever was notified before.
C13_NotifyWithoutWaiters ==
  /\ [](\A t \in Threads :
          (kind = "mutex" /\ pc[t] = "run") =>
            /\ ENABLED Client(Condvar_notify_one(t))
            /\ ENABLED Client(Condvar_notify_all(t)))
  /\ [](last.op \in NotifyOps => last.res = "Ok")
  /\ [][(/\ last'.op \in NotifyOps /\ Waiters = {}
         /\ \E t \in Threads : Condvar_notify_one(t) \/ Condvar_notify_all(t))
        => UNCHANGED <<kind, data, poisoned, lockvars, pc, why, guardvars,
                       written>>]_vars
  /\ [][last'.op \in {"wait_call", "wait_timeout_call"} =>
          \A t \in Threads :
            (Condvar_wait_call(t) \/ Condvar_wait_timeout_call(t)) =>
              (why'[t] = "none" /\ pc'[t] \in {"wait", "wait_timeout"})]_vars

\* C13 witness: a thread has started to wait and is asleep after a notify
\* call that found no thread waiting.
C13_Witness ==
  /\ notified /\ last.op = "wait_call" /\ Cardinality(Waiters) = 1
  /\ \A t \in Threads : pc[t] \in {"run", "wait"} /\ why[t] = "none"

Guards(t) == mg[t] + rg[t] + wg[t]

\* Every guard is eventually dropped, again and again.
AllRelease == []<>(Total(mg) + Total(rg) + Total(wg) = 0)

C16_WaitRecovers ==
  (last.op \in {"wait", "wait_timeout"} /\ last.pois) =>
    /\ last.res = "Ok" /\ last.val = written /\ data = written
    /\ Abandoned /\ mlocked /\ Total(mg) = 1

\* C16 witness: a woken wait has returned its guard on the Mutex a panicked
\* holder poisoned, while a timed-out wait_timeout is still to reacquire it.
C16_Witness ==
  /\ last.op = "wait" /\ last.pois /\ last.res = "Ok" /\ last.why = "woken"
  /\ \E t, u \in Threads :
       /\ pc[t] = "panicked" /\ mg[t] = 0
       /\ pc[u] = "wait_timeout" /\ why[u] = "timeout"

\* C17: wait_timeout never returns without the Mutex: while any guard is
\* live a thread in wait_timeout cannot return, its duration elapsed or not,
\* and the step in which it leaves wait_timeout finds the Mutex free and
\* ends with the thread holding the one guard.
C17_WaitTimeoutReturnsHolding ==
  /\ [](\A t \in Threads :
          (pc[t] = "wait_timeout" /\ (mlocked \/ Total(mg) > 0)) =>
            ~ENABLED Client(Condvar_wait_timeout(t)))
  /\ [][\A t \in Threads :
          (pc[t] = "wait_timeout" /\ pc'[t] /= "wait_timeout") =>
            /\ ~mlocked /\ Total(mg) = 0 /\ why[t] /= "none"
            /\ pc'[t] = "run" /\ mlocked' /\ mg'[t] = 1 /\ Total(mg') = 1
            /\ last'.op = "wait_timeout" /\ last'.res = "Ok"]_vars

\* C17 witness: a wait_timeout whose duration elapsed has returned with the
\* guard, and a second thread whose duration elapsed too is still blocked in
\* wait_timeout behind that holder.
C17_Witness ==
  /\ last.op = "wait_timeout" /\ last.flag /\ last.res = "Ok"
  /\ \E t, u \in Threads :
       /\ pc[t] = "run" /\ mg[t] = 1
       /\ pc[u] = "wait_timeout" /\ why[u] = "timeout"

\* A step of a write-capable access: construction, deref_mut on a live
\* MutexGuard or RwLockWriteGuard, or get_mut.
WriteAccess ==
  \/ \E x \in Vals : Mutex_new(x) \/ RwLock_new(x)
  \/ \E t \in Threads, v \in Vals :
       \/ mg[t] > 0 /\ MutexGuard_deref_mut(t, v)
       \/ wg[t] > 0 /\ RwLockWriteGuard_deref_mut(t, v)
       \/ Mutex_get_mut(t, v)
       \/ RwLock_get_mut(t, v)

\* C18: the protected value changes only in a step of new, of deref_mut on
\* a live MutexGuard or RwLockWriteGuard, or of get_mut; every other step
\* (acquisitions granted, refused or recovered, drops, reads through guards,
\* wait, wait_timeout, notify, panics) leaves it as it is, so it is always
\* the value last stored.
C18_ValueChangesOnlyByWriteAccess ==
  /\ [](data = written)
  /\ [][data' /= data =>
          /\ WriteAccess
          /\ last'.op \in {"new", "deref_mut", "get_mut"}
          /\ last'.op = "deref_mut" => (last'.own > 0 /\ last'.nm + last'.nw = 1)]_vars

\* C18 witness: after a holder panicked and the lock was acquired again, a
\* read through the recovered guard sees the value 1 last stored.
C18_Witness ==
  /\ poisoned /\ data = 1 /\ written = 1
  /\ last.op = "deref" /\ last.val = 1 /\ last.pois

\* C19: get_mut acquires nothing at run time: a running thread with
\* exclusive access to the lock can always call it, and its step returns
\* normally with the current protected value, poisoned or not, stores
\* through the reference into the lock, and leaves the locked flags, reader
\* count, guard counts, poison flag and every thread's position unchanged.
C19_GetMutAcquiresNothing ==
  /\ [](Exclusive =>
          \A t \in Threads :
            pc[t] = "run" =>
              /\ kind = "mutex" => ENABLED Client(Mutex_get_mut(t, 0))
              /\ kind = "rwlock" => ENABLED Client(RwLock_get_mut(t, 0)))
  /\ [][(/\ last'.op = "get_mut"
         /\ \E t \in Threads, v \in Vals : Mutex_get_mut(t, v) \/ RwLock_get_mut(t, v))
        => /\ UNCHANGED <<kind, poisoned, lockvars, guardvars, pc, why>>
           /\ last'.res = "Ok" /\ last'.val = data
           /\ last'.nm + last'.nr + last'.nw = 0
           /\ data' = written']_vars

\* C19 witness: get_mut on an RwLock poisoned by a panicked writer has
\* returned, the lock free and no guard live.
C19_Witness ==
  /\ kind = "rwlock" /\ last.op = "get_mut" /\ last.pois /\ last.res = "Ok"
  /\ Abandoned /\ ~wlocked /\ nreaders = 0 /\ Total(rg) + Total(wg) = 0

\* C20: try_lock is refused exactly when a guard of the Mutex is live,
\* whoever owns it: called by the holder itself it returns TryLockError in
\* one step and no second guard exists; lock() called by the holder never
\* returns while that guard is live (it stays blocked, or panics).
C20_NotReentrant ==
  /\ [](last.op = "try_lock" =>
          /\ last.res = "Err" <=> last.nm = 1
          /\ last.own > 0 => (last.res = "Err" /\ Total(mg) = 1))
  /\ [](\A t \in Threads :
          (pc[t] = "lock" /\ mg[t] > 0) => ~ENABLED Client(Mutex_lock(t)))
  /\ [][\A t \in Threads :
          (pc[t] = "lock" /\ mg[t] > 0) =>
            (pc'[t] \in {"lock", "panicked"} /\ mg'[t] = mg[t])]_vars

\* C20 witness: the holder of the guard was refused by try_lock and is now
\* blocked in lock() on the Mutex it holds.
C20_Witness ==
  /\ last.op = "try_lock" /\ last.own = 1 /\ last.res = "Err"
  /\ \E t \in Threads : pc[t] = "lock" /\ mg[t] = 1

====
